---- MODULE Spec2Model ----
(***************************************************************************)
(* A model of aap_org_inspector.py: AAPClient (get, the organization       *)
(* lookups, get_related_data) and OrganizationInspector                    *)
(* (inspect_organization, _find_dependencies), driven by main.             *)
(*                                                                         *)
(* Strings that the code takes apart (identifiers, links, URLs) are        *)
(* sequences of tokens.  In a link the token "https://aap" is a scheme     *)
(* and host, "/api/v2/" is the version-root marker, "/" is one slash,      *)
(* "httpd" is a path segment whose first letters are h-t-t-p, and every    *)
(* other token is path text holding neither a slash at its start nor the   *)
(* marker.  JSON objects are records; an absent key is a name outside the  *)
(* record's DOMAIN; JSON null / Python None is the string None.            *)
(*                                                                         *)
(* The remote server is the environment: every request either fails        *)
(* (transport error, non-2xx status, undecodable body: all                 *)
(* requests.exceptions.RequestException) or answers with a JSON object.    *)
(* _display_org_details only prints and is left out.                       *)
(***************************************************************************)
EXTENDS Integers, Sequences, FiniteSets, TLC

VARIABLES
    pc,               \* position of the process
    org_identifier,   \* the positional argument, a sequence of characters
    org,              \* the organization record of inspect_organization
    idx,              \* position of the loop over resource_types (1..13)
    cred_idx,         \* position of the loop over dependencies['credentials']
    dependencies,     \* the dependency map of _find_dependencies
    printed,          \* per resource type: the count and remainder printed
    caught,           \* what the two except-Exception handlers reported
    requests,         \* every GET issued by session.get, in order
    server_creds,     \* the server's credential records behind the listing
    exit_code,        \* the process exit code, Running until it ends
    exported,         \* whether export_to_json wrote the file
    related_url,      \* argument of a single get_related_data call
    related_result    \* what that call did

vars == <<pc, org_identifier, org, idx, cred_idx, dependencies, printed, caught,
          requests, server_creds, exit_code, exported, related_url, related_result>>

-----------------------------------------------------------------------------
(* Bounds *)

MaxPresent == 2      \* at most this many resource types in the related map
ShortPage == 2       \* length of a first page shorter than the preview
MaxResults == 6      \* length of a first page longer than the preview
SmallCount == 3      \* a remote count within the preview
MaxCount == 7        \* a remote count beyond the preview
MaxLinkLen == 4      \* longest link handed to get_related_data on its own

-----------------------------------------------------------------------------
(* Values *)

None == "None"
NA == "N/A"
Marker == "/api/v2/"
Host == "https://aap"
EmptyMap == [k \in {} |-> None]

\* dict.get(key, default)
Get(d, k, default) == IF k \in DOMAIN d THEN d[k] ELSE default

\* Python truth value of a JSON scalar
Truthy(v) == v \notin {None, "", "0"}

\* the exit code of a process that has not ended
Running == 0 - 1

\* the slice bound of data['results'][:5] and the threshold of "count > 5"
PreviewLimit == 5

Min(a, b) == IF a < b THEN a ELSE b

-----------------------------------------------------------------------------
(* Strings *)

Digits == {"0", "5"}

DigitVal(c) == IF c = "5" THEN 5 ELSE 0

\* str.strip() on an identifier, whitespace being the character " "
RECURSIVE LStripSpace(_)
LStripSpace(s) == IF s # <<>> /\ Head(s) = " " THEN LStripSpace(Tail(s)) ELSE s

RECURSIVE RStripSpace(_)
RStripSpace(s) ==
    IF s # <<>> /\ s[Len(s)] = " " THEN RStripSpace(SubSeq(s, 1, Len(s) - 1)) ELSE s

Unsigned(s) == IF s # <<>> /\ Head(s) \in {"-", "+"} THEN Tail(s) ELSE s

RECURSIVE DigitsVal(_)
DigitsVal(s) ==
    IF s = <<>> THEN 0 ELSE 10 * DigitsVal(SubSeq(s, 1, Len(s) - 1)) + DigitVal(s[Len(s)])

\* int(org_identifier) raises ValueError exactly when this is FALSE
ParsesAsInt(s) ==
    LET body == Unsigned(RStripSpace(LStripSpace(s)))
    IN  body # <<>> /\ \A i \in 1..Len(body) : body[i] \in Digits

\* the value of int(org_identifier)
IntOf(s) ==
    LET t == RStripSpace(LStripSpace(s))
    IN  IF t # <<>> /\ Head(t) = "-" THEN 0 - DigitsVal(Unsigned(t)) ELSE DigitsVal(Unsigned(t))

\* related_url.startswith('http')
StartsWithHttp(u) == u # <<>> /\ Head(u) \in {Host, "httpd"}

HasMarker(u) == \E i \in 1..Len(u) : u[i] = Marker

\* the text before the first marker: related_url.split('/api/v2/')[0]
RECURSIVE BeforeMarker(_)
BeforeMarker(u) ==
    IF u = <<>> \/ Head(u) = Marker THEN <<>> ELSE <<Head(u)>> \o BeforeMarker(Tail(u))

\* the text after the first marker
RECURSIVE AfterMarker(_)
AfterMarker(u) ==
    IF u = <<>> THEN <<>> ELSE IF Head(u) = Marker THEN Tail(u) ELSE AfterMarker(Tail(u))

\* related_url.split('/api/v2/')[1]: the text between the first two markers
SplitSecond(u) == BeforeMarker(AfterMarker(u))

\* related_url.lstrip('/'); a leading marker loses its own leading slash
RECURSIVE LStripSlash(_)
LStripSlash(u) ==
    IF u # <<>> /\ Head(u) = "/" THEN LStripSlash(Tail(u))
    ELSE IF u # <<>> /\ Head(u) = Marker THEN <<"api/v2/">> \o Tail(u)
    ELSE u

-----------------------------------------------------------------------------
(* AAPClient *)

\* self.api_base
ApiBase == <<Host, Marker>>

\* urljoin(self.api_base, endpoint)
UrlJoin(endpoint) ==
    IF endpoint = <<>> THEN ApiBase
    ELSE IF Head(endpoint) = Host THEN endpoint
    ELSE IF Len(endpoint) > 1 /\ endpoint[1] = "/" /\ endpoint[2] = "/"
         THEN <<"https:">> \o endpoint
    ELSE IF Head(endpoint) = "/" THEN <<Host>> \o endpoint
    ELSE ApiBase \o endpoint

\* get_related_data up to its call of self.get: the endpoint it asks for, or
\* the early "return None"
RelatedEndpoint(u) ==
    IF StartsWithHttp(u)
    THEN IF HasMarker(u)
         THEN [none |-> FALSE, endpoint |-> SplitSecond(u)]
         ELSE [none |-> TRUE, endpoint |-> <<>>]
    ELSE [none |-> FALSE, endpoint |-> LStripSlash(u)]

\* the endpoints of get_organization_by_id and get_organization_by_name
OrgByIdEndpoint(org_id) == <<"organizations/", ToString(org_id), "/">>

OrgByNameEndpoint(org_name) == <<"organizations/?name=">> \o org_name

\* the endpoint of the credential detail request
CredentialEndpoint(cred) == <<"credentials/", cred.id, "/">>

\* one entry of the request log
Request(kind, key, pos, endpoint, outcome) ==
    [kind |-> kind, key |-> key, pos |-> pos, url |-> UrlJoin(endpoint), outcome |-> outcome]

-----------------------------------------------------------------------------
(* The server: what the requests can be answered with *)

\* the positional argument of the command line
Identifiers ==
    { <<"5">>, <<"-", "5">>, <<" ", "0", "5">>, <<"x">>, <<"5", "x">> }

\* the resource types an organization of the model may link to, and the three
\* forms of link: absolute with the marker, relative, absolute without it
Candidates == <<"teams", "projects", "credentials", "access_list">>

PathOf(field) == <<"organizations/5/", field, "/">>

LinkForms(field) ==
    << <<Host, Marker>> \o PathOf(field),
       <<Marker>> \o PathOf(field),
       <<Host, "/", "api/">> \o PathOf(field) >>

CandidateLink(p, scheme) == LinkForms(Candidates[p])[((p + scheme) % 3) + 1]

PresentChoices ==
    { P \in SUBSET (1..Len(Candidates)) : Cardinality(P) <= MaxPresent }

RelatedMap(P, scheme) ==
    [f \in {Candidates[p] : p \in P} |->
        CandidateLink(CHOOSE p \in P : Candidates[p] = f, scheme)]

\* organization records, with and without the key 'related'
Orgs ==
    { [id |-> "5", name |-> "Engineering", related |-> RelatedMap(P, scheme)] :
        P \in PresentChoices, scheme \in 0..2 }
    \cup { [id |-> "5", name |-> "Engineering"] }

Decoy == [id |-> "9", name |-> "Engineering"]

\* get_organization_by_name's "return None"
NoOrg == [none |-> TRUE]

\* JSON bodies of the two organization lookups
ByIdBodies == {EmptyMap} \cup Orgs

ByNameBodies ==
    {EmptyMap, [count |-> 0, results |-> <<>>]}
    \cup { [count |-> 1, results |-> <<o>>] : o \in Orgs }
    \cup { [count |-> 2, results |-> <<o, Decoy>>] : o \in Orgs }

\* a lookup that found nothing: an empty record, or no result
EmptyBody(body) == body = EmptyMap \/ Get(body, "results", <<0>>) = <<>>

\* item i of a listing: which of id / name / username it has, and its owner
ItemKeys(i, flavour) ==
    LET k == (i + flavour) % 6
    IN  IF k = 0 THEN {"name"}
        ELSE IF k = 2 THEN {"id", "username"}
        ELSE IF k = 3 THEN {"id"}
        ELSE IF k = 4 THEN {"id", "name", "username"}
        ELSE {"id", "name"}

ItemOwner(i, flavour) ==
    LET k == (i + flavour) % 3
    IN  IF k = 0 THEN None ELSE IF k = 1 THEN "5" ELSE "9"

Item(i, flavour) ==
    [key \in ItemKeys(i, flavour) \cup {"organization"} |->
        IF key = "id" THEN ToString(i)
        ELSE IF key = "name" THEN "name" \o ToString(i)
        ELSE IF key = "username" THEN "user" \o ToString(i)
        ELSE ItemOwner(i, flavour)]

Items(n, flavour) == [i \in 1..n |-> Item(i, flavour)]

\* JSON bodies of a related-resource listing: 'count' and 'results' may each
\* be missing, and the first page may be shorter than the count
Pages ==
    LET counts == {EmptyMap} \cup {[count |-> c] : c \in {0, SmallCount, MaxCount}}
        results == {EmptyMap}
                   \cup {[results |-> Items(n, fl)] : n \in {ShortPage, MaxResults}, fl \in 0..2}
    IN  {c @@ r : c \in counts, r \in results}

-----------------------------------------------------------------------------
(* OrganizationInspector *)

\* resource_types with credentials moved to the front
CatalogueCredentialsFirst ==
    << "credentials", "teams", "users", "projects", "inventories", "job_templates",
       "workflow_job_templates", "notification_templates",
       "instance_groups", "applications", "activity_stream", "access_list" >>

\* resource_types, in the order of the loop
Catalogue ==
    << "teams", "users", "projects", "inventories", "job_templates",
       "workflow_job_templates", "credentials", "notification_templates",
       "instance_groups", "applications", "activity_stream", "access_list" >>

LoopEnd == Len(Catalogue) + 1

\* the lookup by name tried for integers and the lookup by id for the rest
LookupKindSwapped(identifier) == IF ParsesAsInt(identifier) THEN "org_name" ELSE "org_id"

\* the try / except ValueError around int(org_identifier)
LookupKind(identifier) == IF ParsesAsInt(identifier) THEN "org_id" ELSE "org_name"

LookupEndpoint(kind, identifier) ==
    IF kind = "org_id" THEN OrgByIdEndpoint(IntOf(identifier))
    ELSE OrgByNameEndpoint(identifier)

LookupBodies(kind) == IF kind = "org_id" THEN ByIdBodies ELSE ByNameBodies

\* what get_organization_by_id / get_organization_by_name return for a body
LookupResult(kind, body) ==
    IF kind = "org_id" THEN body
    ELSE LET results == Get(body, "results", <<>>)
         IN  IF results # <<>> THEN results[1] ELSE NoOrg

\* "if not org" left out
NotFoundNever(o) == FALSE

\* "if not org"
NotFound(o) == o \in {NoOrg, EmptyMap}

\* org.get('related', {})
RelatedFields(o) == Get(o, "related", EmptyMap)

\* "if field in related_fields" and related_fields[field]: the link of a
\* resource type, NoLink when the map has no such key
NoLink == <<"<absent>">>

\* a link made up for a type the map does not hold
LinkForDefault(related_fields, field) ==
    IF field \in DOMAIN related_fields THEN related_fields[field] ELSE PathOf(field)

LinkFor(related_fields, field) ==
    IF field \in DOMAIN related_fields THEN related_fields[field] ELSE NoLink

\* the next iteration of the loop, after iteration i, whose type is present
NextPresent(related_fields, i) ==
    LET later == { j \in (i + 1)..Len(Catalogue) :
                     LinkFor(related_fields, Catalogue[j]) # NoLink }
    IN  IF later = {} THEN LoopEnd ELSE CHOOSE j \in later : \A k \in later : j <= k

\* data['results'] without the slice
FirstItemsAll(results) == results

\* data['results'][:5]
FirstItems(results) == SubSeq(results, 1, Min(PreviewLimit, Len(results)))

\* the summary appended to dependencies[field]
Summary(item) ==
    [id |-> Get(item, "id", NA), name |-> Get(item, "name", Get(item, "username", NA))]

Preview(results) ==
    LET items == FirstItems(results) IN [i \in 1..Len(items) |-> Summary(items[i])]

\* the "... and N more" line: nothing, or the number printed
Remainder(count) == IF count > PreviewLimit THEN <<count - PreviewLimit>> ELSE <<>>

\* the comparison without the test that the owner is set
IsCrossOrgUnguarded(cred_org_id, org_id) == cred_org_id # org_id

\* "if cred_org_id and cred_org_id != org['id']"
IsCrossOrg(cred_org_id, org_id) == Truthy(cred_org_id) /\ cred_org_id # org_id

\* the loop run again from the start while a type stays unpopulated
AfterIterationRetry(related_fields, i, deps) ==
    LET present == { k \in 1..Len(Catalogue) : Catalogue[k] \in DOMAIN related_fields }
        missing == { k \in present : Catalogue[k] \notin DOMAIN deps }
    IN  IF missing # {}
        THEN [pc |-> "traverse", idx |-> CHOOSE k \in missing : TRUE, cred_idx |-> 0]
        ELSE [pc |-> "returned", idx |-> LoopEnd, cred_idx |-> 0]

\* where the process is once the loop has handled iteration i
AfterIteration(related_fields, i, deps) ==
    LET j == NextPresent(related_fields, i)
    IN  IF j < LoopEnd THEN [pc |-> "traverse", idx |-> j, cred_idx |-> 0]
        ELSE IF "credentials" \in DOMAIN deps /\ deps["credentials"] # <<>>
             THEN [pc |-> "credentials", idx |-> j, cred_idx |-> 1]
             ELSE [pc |-> "returned", idx |-> j, cred_idx |-> 0]

-----------------------------------------------------------------------------
(* The run of main *)

Init ==
    /\ pc = "resolve"
    /\ org_identifier \in Identifiers
    /\ org = EmptyMap
    /\ idx = 0
    /\ cred_idx = 0
    /\ dependencies = EmptyMap
    /\ printed = EmptyMap
    /\ caught = <<>>
    /\ requests = <<>>
    /\ server_creds = <<>>
    /\ exit_code = Running
    /\ exported = FALSE
    /\ related_url = <<>>
    /\ related_result = "idle"

\* AAPClient.get's except branch: sys.exit(1)
Exit(request) ==
    /\ requests' = Append(requests, request)
    /\ pc' = "exited"
    /\ exit_code' = 1

\* the organization lookup fails
ResolveFail ==
    /\ pc = "resolve"
    /\ LET kind == LookupKind(org_identifier)
       IN  Exit(Request(kind, "", 0, LookupEndpoint(kind, org_identifier), "fail"))
    /\ UNCHANGED <<org_identifier, org, idx, cred_idx, dependencies, printed, caught,
                   server_creds, exported, related_url, related_result>>

\* the lookup answers and "if not org" exits
ResolveNotFound ==
    /\ pc = "resolve"
    /\ LET kind == LookupKind(org_identifier)
       IN  \E body \in LookupBodies(kind) :
             /\ NotFound(LookupResult(kind, body))
             /\ requests' = Append(requests,
                    Request(kind, "", 0, LookupEndpoint(kind, org_identifier),
                            IF EmptyBody(body) THEN "empty" ELSE "ok"))
    /\ pc' = "exited"
    /\ exit_code' = 1
    /\ UNCHANGED <<org_identifier, org, idx, cred_idx, dependencies, printed, caught,
                   server_creds, exported, related_url, related_result>>

\* the lookup answers with an organization and _find_dependencies begins
ResolveFound ==
    /\ pc = "resolve"
    /\ LET kind == LookupKind(org_identifier)
       IN  \E body \in LookupBodies(kind) :
             LET o == LookupResult(kind, body)
                 next == AfterIteration(RelatedFields(o), 0, EmptyMap)
             IN  /\ ~NotFound(o)
                 /\ requests' = Append(requests,
                        Request(kind, "", 0, LookupEndpoint(kind, org_identifier),
                                IF EmptyBody(body) THEN "empty" ELSE "ok"))
                 /\ org' = o
                 /\ pc' = next.pc
                 /\ idx' = next.idx
                 /\ cred_idx' = next.cred_idx
    /\ UNCHANGED <<org_identifier, dependencies, printed, caught, server_creds,
                   exit_code, exported, related_url, related_result>>

\* one iteration of the loop whose get_related_data returns None without a
\* request: data.get raises AttributeError and the handler reports it
RelatedUnresolved ==
    /\ pc = "traverse"
    /\ LET field == Catalogue[idx]
           related_fields == RelatedFields(org)
           next == AfterIteration(related_fields, idx, dependencies)
       IN  /\ RelatedEndpoint(LinkFor(related_fields, field)).none
           /\ caught' = Append(caught, [handler |-> "related", key |-> field])
           /\ pc' = next.pc
           /\ idx' = next.idx
           /\ cred_idx' = next.cred_idx
    /\ UNCHANGED <<org_identifier, org, dependencies, printed, requests, server_creds,
                   exit_code, exported, related_url, related_result>>

\* one iteration of the loop whose request fails: AAPClient.get exits, and
\* "except Exception" does not catch SystemExit
RelatedFail ==
    /\ pc = "traverse"
    /\ LET field == Catalogue[idx]
           target == RelatedEndpoint(LinkFor(RelatedFields(org), field))
       IN  /\ ~target.none
           /\ Exit(Request("related", field, idx, target.endpoint, "fail"))
    /\ UNCHANGED <<org_identifier, org, idx, cred_idx, dependencies, printed, caught,
                   server_creds, exported, related_url, related_result>>

\* one iteration of the loop whose request is answered with a listing
RelatedPage ==
    /\ pc = "traverse"
    /\ LET field == Catalogue[idx]
           related_fields == RelatedFields(org)
           target == RelatedEndpoint(LinkFor(related_fields, field))
       IN  /\ ~target.none
           /\ \E data \in Pages :
                LET count == Get(data, "count", 0)
                    deps == IF count > 0 /\ "results" \in DOMAIN data
                            THEN (field :> Preview(data["results"])) @@ dependencies
                            ELSE dependencies
                    next == AfterIteration(related_fields, idx, deps)
                IN  /\ requests' = Append(requests,
                           Request("related", field, idx, target.endpoint, "ok"))
                    /\ printed' = (field :> [count |-> count, more |-> Remainder(count)])
                                  @@ printed
                    /\ dependencies' = deps
                    /\ server_creds' = IF field = "credentials" /\ "results" \in DOMAIN data
                                       THEN data["results"] ELSE server_creds
                    /\ pc' = next.pc
                    /\ idx' = next.idx
                    /\ cred_idx' = next.cred_idx
    /\ UNCHANGED <<org_identifier, org, caught, exit_code, exported, related_url,
                   related_result>>

\* one iteration of the credential loop whose detail request fails
CredentialFail ==
    /\ pc = "credentials"
    /\ LET cred == dependencies["credentials"][cred_idx]
       IN  Exit(Request("credential", cred.id, cred_idx, CredentialEndpoint(cred), "fail"))
    /\ UNCHANGED <<org_identifier, org, idx, cred_idx, dependencies, printed, caught,
                   server_creds, exported, related_url, related_result>>

\* one iteration of the credential loop whose detail request is answered with
\* the server's record of that credential
CredentialDetail ==
    /\ pc = "credentials"
    /\ LET creds == dependencies["credentials"]
           cred == creds[cred_idx]
       IN  \E k \in 1..Len(server_creds) :
             LET cred_detail == server_creds[k]
                 cred_org_id == Get(cred_detail, "organization", None)
                 entry == [credential |-> cred, organization_id |-> cred_org_id]
             IN  /\ Get(cred_detail, "id", None) = cred.id
                 /\ requests' = Append(requests,
                        Request("credential", cred.id, cred_idx, CredentialEndpoint(cred), "ok"))
                 /\ dependencies' =
                        IF IsCrossOrg(cred_org_id, org["id"])
                        THEN ("cross_org_credentials" :>
                                 Append(Get(dependencies, "cross_org_credentials", <<>>), entry))
                             @@ dependencies
                        ELSE dependencies
                 /\ IF cred_idx < Len(creds)
                    THEN pc' = pc /\ cred_idx' = cred_idx + 1
                    ELSE pc' = "returned" /\ cred_idx' = 0
    /\ UNCHANGED <<org_identifier, org, idx, printed, caught, server_creds, exit_code,
                   exported, related_url, related_result>>

\* main after inspect_organization returned: the optional export, then the end
MainFinish ==
    /\ pc = "returned"
    /\ \E export \in BOOLEAN : exported' = export
    /\ pc' = "done"
    /\ exit_code' = 0
    /\ UNCHANGED <<org_identifier, org, idx, cred_idx, dependencies, printed, caught,
                   requests, server_creds, related_url, related_result>>

Next ==
    \/ ResolveFail
    \/ ResolveNotFound
    \/ ResolveFound
    \/ RelatedUnresolved
    \/ RelatedFail
    \/ RelatedPage
    \/ CredentialFail
    \/ CredentialDetail
    \/ MainFinish

Spec == Init /\ [][Next]_vars

\* the process is single-threaded and every call blocks until it is answered:
\* a step that can be taken is taken
FairSpec == Spec /\ WF_vars(Next)

-----------------------------------------------------------------------------
(* get_related_data on its own, for every link up to MaxLinkLen tokens *)

LinkTokens == {Host, Marker, "/", "teams/", "httpd"}

RECURSIVE SeqsUpTo(_)
SeqsUpTo(n) ==
    IF n = 0 THEN {<<>>}
    ELSE LET shorter == SeqsUpTo(n - 1)
         IN  shorter \cup {Append(u, t) : u \in {v \in shorter : Len(v) = n - 1}, t \in LinkTokens}

\* a scheme and host stand at the start of a link or nowhere
AllLinks == {u \in SeqsUpTo(MaxLinkLen) : \A i \in 2..Len(u) : u[i] # Host}

LinkInit ==
    /\ pc = "link"
    /\ related_url \in AllLinks
    /\ related_result = "pending"
    /\ org_identifier = <<>>
    /\ org = EmptyMap
    /\ idx = 0
    /\ cred_idx = 0
    /\ dependencies = EmptyMap
    /\ printed = EmptyMap
    /\ caught = <<>>
    /\ requests = <<>>
    /\ server_creds = <<>>
    /\ exit_code = Running
    /\ exported = FALSE

\* the early "return None"
GetRelatedNone ==
    /\ pc = "link"
    /\ related_result = "pending"
    /\ RelatedEndpoint(related_url).none
    /\ related_result' = "none"
    /\ UNCHANGED <<pc, org_identifier, org, idx, cred_idx, dependencies, printed, caught,
                   requests, server_creds, exit_code, exported, related_url>>

\* "return self.get(endpoint)", answered
GetRelatedData ==
    /\ pc = "link"
    /\ related_result = "pending"
    /\ ~RelatedEndpoint(related_url).none
    /\ requests' = Append(requests,
           Request("related", "", 0, RelatedEndpoint(related_url).endpoint, "ok"))
    /\ related_result' = "json"
    /\ UNCHANGED <<pc, org_identifier, org, idx, cred_idx, dependencies, printed, caught,
                   server_creds, exit_code, exported, related_url>>

\* "return self.get(endpoint)", failed: sys.exit(1)
GetRelatedExit ==
    /\ pc = "link"
    /\ related_result = "pending"
    /\ ~RelatedEndpoint(related_url).none
    /\ Exit(Request("related", "", 0, RelatedEndpoint(related_url).endpoint, "fail"))
    /\ related_result' = "exit"
    /\ UNCHANGED <<org_identifier, org, idx, cred_idx, dependencies, printed, caught,
                   server_creds, exported, related_url>>

LinkNext == GetRelatedNone \/ GetRelatedData \/ GetRelatedExit

LinkSpec == LinkInit /\ [][LinkNext]_vars

-----------------------------------------------------------------------------
(* Vocabulary of the properties *)

Returned == pc \in {"returned", "done"}

Ended == pc \in {"exited", "done"}

PresentTypes == {f \in {Catalogue[i] : i \in 1..Len(Catalogue)} : f \in DOMAIN RelatedFields(org)}

AbsentTypes == {Catalogue[i] : i \in 1..Len(Catalogue)} \ PresentTypes

RequestsOf(kinds) == {i \in 1..Len(requests) : requests[i].kind \in kinds}

Failed(i) == requests[i].outcome = "fail"

IsByIdUrl(url) == Len(url) = 5 /\ url[3] = "organizations/" /\ url[5] = "/"

IsByNameUrl(url) == Len(url) > 3 /\ url[3] = "organizations/?name="

\* C1: once the organization is resolved, a failed related-resource or
\* credential-detail request never ends the run: the process does not exit on it.
C1_TraversalFailureNeverAborts ==
    \A i \in RequestsOf({"related", "credential"}) : Failed(i) => pc # "exited"

\* C2, as stated: the returned dependency map has at most N keys, N being the
\* number of catalogue types present in the related map, each of at most 5 items.
C2_AtMostNKeys ==
    Returned =>
        /\ Cardinality(DOMAIN dependencies) <= Cardinality(PresentTypes)
        /\ \A k \in DOMAIN dependencies : Len(dependencies[k]) <= 5

\* C2, amended: the returned dependency map has at most N keys that are catalogue
\* types, all of them present types, plus at most the one key
\* cross_org_credentials (so at most N + 1 keys), each value of at most 5 items.
C2_AtMostNKeysAndCrossOrg ==
    Returned =>
        /\ DOMAIN dependencies \ {"cross_org_credentials"} \subseteq PresentTypes
        /\ Cardinality(DOMAIN dependencies) <= Cardinality(PresentTypes) + 1
        /\ \A k \in DOMAIN dependencies : Len(dependencies[k]) <= 5

C2_Witness ==
    /\ Returned
    /\ Cardinality(PresentTypes) = 2
    /\ Cardinality(DOMAIN dependencies) = 3
    /\ \E f \in DOMAIN printed :
         /\ printed[f].count > 5
         /\ f \in DOMAIN dependencies
         /\ Len(dependencies[f]) = 5

CrossOrgEntries == Get(dependencies, "cross_org_credentials", <<>>)

HasEntry(record, owner) ==
    \E e \in 1..Len(CrossOrgEntries) :
        CrossOrgEntries[e] = [credential |-> Summary(record), organization_id |-> owner]

HasAnyEntry(record) ==
    \E e \in 1..Len(CrossOrgEntries) : CrossOrgEntries[e].credential = Summary(record)

\* the credentials whose detail record the run has fetched, by their position
\* in the listing
Detailed == {requests[i].pos : i \in {j \in RequestsOf({"credential"}) : ~Failed(j)}}

Owner(k) == Get(server_creds[k], "organization", None)

C4_AbsentTypeUntouched ==
    \A f \in AbsentTypes :
        /\ f \notin DOMAIN dependencies
        /\ f \notin DOMAIN printed
        /\ \A i \in RequestsOf({"related"}) : requests[i].key # f
        /\ f = "credentials" => RequestsOf({"credential"}) = {}

C4_Witness ==
    /\ pc = "done"
    /\ "teams" \in AbsentTypes
    /\ "access_list" \in AbsentTypes
    /\ PresentTypes = {"projects", "credentials"}
    /\ Cardinality(RequestsOf({"related"})) = 2
    /\ RequestsOf({"credential"}) # {}

C6_NotFoundAndExitCode ==
    /\ (requests # <<>> /\ requests[1].outcome = "empty") =>
          /\ pc = "exited"
          /\ exit_code = 1
          /\ Len(requests) = 1
          /\ dependencies = EmptyMap
          /\ ~exported
    /\ Ended =>
          IF requests[1].outcome = "empty" \/ \E i \in 1..Len(requests) : Failed(i)
          THEN exit_code = 1 /\ ~exported
          ELSE exit_code = 0
    /\ ~Ended => exit_code = Running

C6_Witness ==
    /\ pc = "exited"
    /\ ~ParsesAsInt(org_identifier)
    /\ Len(requests) = 1
    /\ requests[1].outcome = "empty"
    /\ IsByNameUrl(requests[1].url)
    /\ exit_code = 1

IsAbsoluteUrl(u) == u # <<>> /\ Head(u) = Host

OneGet(url) == Len(requests) = 1 /\ requests[1].url = url

\* C7: get_related_data issues exactly one GET of the suffix after the marker,
\* under the client's base, for an absolute URL holding the marker; exactly one
\* GET of the path without its leading slashes for a relative path; and returns
\* null without a request for an absolute URL without the marker.
C7_GetRelatedData ==
    related_result \in {"none", "json", "exit"} =>
        IF IsAbsoluteUrl(related_url)
        THEN IF HasMarker(related_url)
             THEN related_result # "none" /\ OneGet(ApiBase \o AfterMarker(related_url))
             ELSE related_result = "none" /\ requests = <<>>
        ELSE related_result # "none" /\ OneGet(ApiBase \o LStripSlash(related_url))

\* the order of the catalogue as the claim lists it
ClaimedOrder ==
    << "teams", "users", "projects", "inventories", "job_templates",
       "workflow_job_templates", "credentials", "notification_templates",
       "instance_groups", "applications", "activity_stream", "access_list" >>

ClaimedPos(f) == CHOOSE i \in 1..Len(ClaimedOrder) : ClaimedOrder[i] = f

\* C8: the requests are issued in the order: the organization lookup, then the
\* related-resource fetches in catalogue order, then the credential detail
\* fetches in preview order; no related fetch before the organization is
\* resolved, no credential fetch before the loop over the catalogue has ended.
C8_RequestOrder ==
    /\ \A i \in 1..Len(requests) :
          (requests[i].kind \in {"org_id", "org_name"}) <=> (i = 1)
    /\ RequestsOf({"related", "credential"}) # {} => requests[1].outcome = "ok"
    /\ \A i, j \in RequestsOf({"related"}) :
          i < j => ClaimedPos(requests[i].key) < ClaimedPos(requests[j].key)
    /\ \A i \in RequestsOf({"credential"}), j \in RequestsOf({"related"}) : j < i
    /\ LET first == Cardinality(RequestsOf({"org_id", "org_name", "related"}))
       IN  \A i \in RequestsOf({"credential"}) :
             /\ requests[i].pos = i - first
             /\ requests[i].key = dependencies["credentials"][i - first].id
    /\ RequestsOf({"credential"}) # {} =>
          /\ idx = LoopEnd
          /\ \A f \in PresentTypes :
               \/ f \in {requests[j].key : j \in RequestsOf({"related"})}
               \/ [handler |-> "related", key |-> f] \in {caught[c] : c \in 1..Len(caught)}

C8_Witness ==
    /\ pc = "done"
    /\ Len(requests) = 8
    /\ requests[2].key = "credentials"
    /\ requests[3].key = "access_list"
    /\ requests[4].kind = "credential"
    /\ requests[8].kind = "credential"

Previewed(f) == IF f \in DOMAIN dependencies THEN Len(dependencies[f]) ELSE 0

C10_Bounded ==
    /\ Cardinality(RequestsOf({"org_id", "org_name"})) <= 1
    /\ \A i, j \in RequestsOf({"related"}) : requests[i].key = requests[j].key => i = j
    /\ Cardinality(RequestsOf({"related"})) <= 12
    /\ \A i, j \in RequestsOf({"credential"}) : requests[i].pos = requests[j].pos => i = j
    /\ Cardinality(RequestsOf({"credential"})) <= 5
    /\ pc = "exited" => exit_code = 1
    /\ Ended => (Returned \/ exit_code = 1)

\* C10: every run ends, by returning a report or by exiting with code 1, after
\* at most one organization lookup, at most one fetch per catalogue type (12)
\* and at most one detail fetch per previewed credential (5).
C10_TerminatesBounded == []C10_Bounded /\ <>Ended

C10_Witness ==
    /\ pc = "done"
    /\ Cardinality(RequestsOf({"related"})) = 2
    /\ Cardinality(RequestsOf({"credential"})) = 5
    /\ Len(requests) = 8

====
